---------------------------- MODULE Spec2Model ----------------------------
(***************************************************************************)
(* A model of wazm's analysis engine (src/src/lib/analysis.rs):            *)
(*   - analyze(): one forward pass over the payloads of a parsed Module,   *)
(*     filling an Analysis value;                                          *)
(*   - the Display rendering of the Analysis (called / uncalled functions, *)
(*     the call tree);                                                     *)
(*   - RangeVec::from, the compact range rendering.                        *)
(***************************************************************************)
EXTENDS Integers, Sequences, FiniteSets, TLC

(***************************************************************************)
(* Bounds of the model.                                                    *)
(***************************************************************************)
\* payloads, section entries, element items and operators of one module
MaxInput == 5
\* entries of one import section or one export section
MaxEntries == 2
\* segments of one element section, and items of one segment
MaxSegments == 2
\* largest function index an operator, export or element item refers to
MaxFuncIndex == 1
\* extra bytes of a non-minimal LEB128 section length
MaxPad == 1

(***************************************************************************)
(* Generic helpers.                                                        *)
(***************************************************************************)
Range(s) == {s[i] : i \in DOMAIN s}

SeqsUpTo(S, n) == UNION {[1..k -> S] : k \in 0..n}

Contains(s, x) == \E i \in DOMAIN s : s[i] = x

Min(a, b) == IF a < b THEN a ELSE b

\* BTreeMap / HashMap insert
MapPut(m, k, v) == [x \in (DOMAIN m) \cup {k} |-> IF x = k THEN v ELSE m[x]]

EmptyMap == [x \in {} |-> 0]

\* Vec::sort on a Vec<usize>: an insertion sort into ascending order
RECURSIVE InsertAsc(_, _)
InsertAsc(s, x) ==
    IF s = <<>> THEN <<x>>
    ELSE IF x < Head(s) THEN <<x>> \o s
    ELSE <<Head(s)>> \o InsertAsc(Tail(s), x)

RECURSIVE SortAsc(_)
SortAsc(s) == IF s = <<>> THEN <<>> ELSE InsertAsc(SortAsc(Tail(s)), Head(s))

\* Vec::dedup: removes consecutive repeated elements
RECURSIVE Dedup(_)
Dedup(s) ==
    IF Len(s) <= 1 THEN s
    ELSE IF s[1] = s[2] THEN Dedup(Tail(s))
    ELSE <<s[1]>> \o Dedup(Tail(s))

(***************************************************************************)
(* The input: what the loader hands to analyze().                          *)
(***************************************************************************)
\* content sizes of a section
Sizes == {1, 130}

\* leb128::write::unsigned: the number of bytes of the unsigned LEB128
\* encoding of n
RECURSIVE LebLen(_)
LebLen(n) == IF n < 128 THEN 1 ELSE 1 + LebLen(n \div 128)

\* the framing of a section in the file: its content size and the width of
\* the length field as the file encodes it (LEB128 may be padded)
Framings == {[size |-> s, width |-> LebLen(s) + p] : s \in Sizes, p \in 0..MaxPad}

\* the framings whose length field is the shortest encoding of a small size
MinimalFramings == {f \in Framings : f.size < 128 /\ f.width = LebLen(f.size)}

Names == {"a", "b"}

ImportEntries == [kind : {"Func", "Global"}, name : {"a"}]

ExportEntries ==
    [kind : {"Func"}, index : 0..MaxFuncIndex, name : Names]
        \cup [kind : {"Global"}, index : {0}, name : {"a"}]

\* entries of a section that fail to decode
ImportEntriesOrErr == ImportEntries \cup [kind : {"Err"}, name : {"a"}]

ExportEntriesOrErr == ExportEntries \cup [kind : {"Err"}, index : {0}, name : {"a"}]

\* an element segment: its reference type and its items
Segments ==
    [ty : {"funcref"}, items : {"Functions"}, list : SeqsUpTo(0..MaxFuncIndex, MaxSegments)]
        \cup [ty : {"funcref"}, items : {"Expressions"}, list : {<<>>}]
        \cup [ty : {"externref"}, items : {"Expressions"}, list : {<<>>}]

\* segments that fail to decode, and segments of funcref type whose list of
\* function indices has an item that fails to decode
SegmentsOrErr ==
    Segments
        \cup [ty : {"Err"}, items : {"None"}, list : {<<>>}]
        \cup [ty : {"funcref"}, items : {"FunctionsErr"}, list : {<<>>}]

\* operators of a function body
Operators ==
    [name : {"Call"}, function_index : 0..MaxFuncIndex]
        \cup [name : {"Nop", "Drop"}, function_index : {0}]

\* section kinds that analyze() only records with add_section
PlainSections == {"CustomSection"}

ItemCount(section_type, n) ==
    IF section_type = "CustomSection" THEN [some |-> FALSE, count |-> 0]
    ELSE [some |-> TRUE, count |-> n]

(***************************************************************************)
(* State.                                                                  *)
(***************************************************************************)
VARIABLES
    \* Analysis
    include_sections, include_functions, include_operators,
    implemented_function_count, imported_functions, exported_functions,
    static_function_calls, dynamic_dispatch_functions,
    sections, sections_size_total,
    operator_usage, sorted_operator_usage, operator_count,
    \* analyze(): its local counter and where it is
    function_index, pc,
    \* Module.file_size and the payloads read so far
    file_size, code_left, segments_left, input_used,
    \* the history of the pass
    assigned, decoded_calls, segment_functions, decoded_operators, first_seen,
    \* Display for Analysis: the call tree being written
    include_function_call_tree, rpc, calls_made, keys_left, call_stack, out,
    \* RangeVec::from: its argument and its result
    range_input, range_output,
    \* Module::parse: the Module being built, where parse() is, and what the
    \* parser has yielded so far
    version, payloads, lpc, yielded,
    \* the export entries of function kind and the failed decodings the pass
    \* has met, the calls handed to add_function_call, and the call tree an
    \* earlier analysis of the same module wrote
    exports_seen, undecoded, call_log, previous_out

analysisVars ==
    <<include_sections, include_functions, include_operators,
      implemented_function_count, imported_functions, exported_functions,
      static_function_calls, dynamic_dispatch_functions,
      sections, sections_size_total,
      operator_usage, sorted_operator_usage, operator_count>>

passVars == <<function_index, pc, file_size, code_left, segments_left, input_used>>

historyVars == <<assigned, decoded_calls, segment_functions, decoded_operators, first_seen>>

displayVars == <<include_function_call_tree, rpc, calls_made, keys_left, call_stack, out>>

rangeVars == <<range_input, range_output>>

loaderVars == <<version, payloads, lpc, yielded>>

auditVars == <<exports_seen, undecoded, call_log, previous_out>>

vars == <<analysisVars, passVars, historyVars, displayVars, rangeVars, loaderVars,
          auditVars>>


(***************************************************************************)
(* Analysis: the operations of the pass.                                   *)
(***************************************************************************)
\* the buffer track_size encodes the content size into
LebBufLen == 4

StartsWithMagic(section_type) == section_type \in {"Magic"}

\* the byte range of the content of the next section of the file
SectionRange(framing) ==
    [start |-> file_size + 1 + framing.width,
     end   |-> file_size + 1 + framing.width + framing.size]

\* a track_size that leaves the tag byte out of the header
track_size_without_tag(section_type, range) ==
    LET size == range.end - range.start
        section_header_size ==
            IF StartsWithMagic(section_type) THEN 0 ELSE LebLen(size)
    IN  [panics      |-> FALSE,
         header_size |-> section_header_size,
         total       |-> sections_size_total + size + section_header_size]

\* track_size: the new total and the reconstructed header size; the write
\* into the buffer fails (and expect() panics) when the encoding is longer
track_size(section_type, range) ==
    LET size == range.end - range.start
        section_header_size ==
            IF StartsWithMagic(section_type) THEN 0 ELSE LebLen(size) + 1
    IN  [panics      |-> ~StartsWithMagic(section_type) /\ LebLen(size) > LebBufLen,
         header_size |-> section_header_size,
         total       |-> sections_size_total + size + section_header_size]

add_section_panics(section_type, range) ==
    include_sections /\ track_size(section_type, range).panics

add_section(section_type, item_count, range) ==
    IF include_sections
    THEN LET t == track_size(section_type, range) IN
         /\ sections_size_total' = t.total
         /\ sections' = Append(sections,
                [section_type    |-> section_type,
                 header_location |-> range.start - t.header_size,
                 item_count      |-> item_count,
                 range           |-> range,
                 size            |-> range.end - range.start])
    ELSE UNCHANGED <<sections, sections_size_total>>

\* an add_function_call that pushes without looking
add_function_call_unchecked(calls, caller_index, called_index) ==
    IF caller_index \in DOMAIN calls
    THEN [calls EXCEPT ![caller_index] = Append(@, called_index)]
    ELSE MapPut(calls, caller_index, <<>>)

\* add_function_call: the caller's entry of the call graph
add_function_call(calls, caller_index, called_index) ==
    IF caller_index \in DOMAIN calls
    THEN IF Contains(calls[caller_index], called_index)
         THEN calls
         ELSE [calls EXCEPT ![caller_index] = Append(@, called_index)]
    ELSE MapPut(calls, caller_index, <<>>)

\* reader.clone().into_iter().flatten(): the entries that decode, up to the
\* first that does not; the iterator of a section ends after an Err
RECURSIVE Flatten(_)
Flatten(entries) ==
    IF entries = <<>> THEN <<>>
    ELSE IF Head(entries).kind = "Err" THEN <<>>
    ELSE <<Head(entries)>> \o Flatten(Tail(entries))

HasErr(entries) == \E i \in DOMAIN entries : entries[i].kind = "Err"

\* add_imports without `*function_index += 1`
RECURSIVE ImportLoopNoIncrement(_, _, _, _)
ImportLoopNoIncrement(entries, imported, index, log) ==
    IF entries = <<>> THEN [imported |-> imported, index |-> index, log |-> log]
    ELSE IF Head(entries).kind = "Func"
         THEN ImportLoopNoIncrement(Tail(entries),
                         MapPut(imported, index, Head(entries).name),
                         index,
                         Append(log, [kind |-> "import", index |-> index]))
         ELSE ImportLoopNoIncrement(Tail(entries), imported, index, log)

\* the loop of add_imports over the entries of the section
RECURSIVE ImportLoop(_, _, _, _)
ImportLoop(entries, imported, index, log) ==
    IF entries = <<>> THEN [imported |-> imported, index |-> index, log |-> log]
    ELSE IF Head(entries).kind = "Func"
         THEN ImportLoop(Tail(entries),
                         MapPut(imported, index, Head(entries).name),
                         index + 1,
                         Append(log, [kind |-> "import", index |-> index]))
         ELSE ImportLoop(Tail(entries), imported, index, log)

\* the loop of add_exports over the entries of the section
RECURSIVE ExportLoop(_, _)
ExportLoop(entries, exported) ==
    IF entries = <<>> THEN exported
    ELSE IF Head(entries).kind = "Func"
         THEN ExportLoop(Tail(entries),
                         MapPut(exported, Head(entries).index, Head(entries).name))
         ELSE ExportLoop(Tail(entries), exported)

\* what add_elements does with one qualifying segment
SegmentFunctions(dynamic, list) == Dedup(SortAsc(list))

Qualifies(segment) == segment.ty = "funcref" /\ segment.items = "Functions"

\* the loop of add_elements over the segments of the section
RECURSIVE ElementLoop(_, _)
ElementLoop(segments, dynamic) ==
    IF segments = <<>> THEN dynamic
    ELSE IF Qualifies(Head(segments))
         THEN ElementLoop(Tail(segments), SegmentFunctions(dynamic, Head(segments).list))
         ELSE ElementLoop(Tail(segments), dynamic)

\* a tally whose first occurrence inserts 0, as add_function_call inserts vec!()
tally_from_zero(usage, opname) ==
    IF opname \in DOMAIN usage THEN [usage EXCEPT ![opname] = @ + 1]
    ELSE MapPut(usage, opname, 0)

\* operator_usage.entry(opname).and_modify(|count| *count += 1).or_insert(1)
tally(usage, opname) ==
    IF opname \in DOMAIN usage THEN [usage EXCEPT ![opname] = @ + 1]
    ELSE MapPut(usage, opname, 1)

\* the mnemonic add_function tallies: the first word of the Debug form
OpName(operator) == operator.name

\* String order of the mnemonics, the key order of the BTreeMap
KeyOrder == <<"Call", "Drop", "Nop">>

\* BTreeMap::iter of operator_usage
UsageIter(usage) ==
    LET keys == SelectSeq(KeyOrder, LAMBDA k : k \in DOMAIN usage)
    IN  [i \in 1..Len(keys) |-> [name |-> keys[i], count |-> usage[keys[i]]]]

\* an unstable sort: an entry goes before the entries of equal count
RECURSIVE InsertDescUnstable(_, _)
InsertDescUnstable(s, x) ==
    IF s = <<>> THEN <<x>>
    ELSE IF Head(s).count <= x.count THEN <<x>> \o s
    ELSE <<Head(s)>> \o InsertDescUnstable(Tail(s), x)

\* sort_by(|a, b| b.1.cmp(&a.1)): stable, descending by count
RECURSIVE InsertDesc(_, _)
InsertDesc(s, x) ==
    IF s = <<>> THEN <<x>>
    ELSE IF Head(s).count < x.count THEN <<x>> \o s
    ELSE <<Head(s)>> \o InsertDesc(Tail(s), x)

RECURSIVE SortByCountDesc(_)
SortByCountDesc(v) ==
    IF v = <<>> THEN <<>>
    ELSE InsertDesc(SortByCountDesc(SubSeq(v, 1, Len(v) - 1)), v[Len(v)])

post_process(usage) == SortByCountDesc(UsageIter(usage))

(***************************************************************************)
(* analyze(): the pass over the payloads.                                  *)
(***************************************************************************)
\* ..Default::default() and function_index = 0: an Analysis before the
\* first payload
FreshAnalysis ==
    /\ implemented_function_count = 0
    /\ imported_functions = EmptyMap
    /\ exported_functions = EmptyMap
    /\ static_function_calls = EmptyMap
    /\ dynamic_dispatch_functions = <<>>
    /\ sections = <<>>
    /\ sections_size_total = 0
    /\ operator_usage = EmptyMap
    /\ sorted_operator_usage = <<>>
    /\ operator_count = 0
    /\ function_index = 0
    /\ file_size = 0
    /\ code_left = 0
    /\ segments_left = 0
    /\ input_used = 0
    /\ assigned = <<>>
    /\ decoded_calls = {}
    /\ segment_functions = {}
    /\ decoded_operators = 0
    /\ first_seen = <<>>

\* nothing is being rendered
NoDisplay ==
    /\ include_function_call_tree = FALSE
    /\ rpc = "idle"
    /\ calls_made = 0
    /\ keys_left = {}
    /\ call_stack = <<>>
    /\ out = <<>>

NoRange ==
    /\ range_input = <<>>
    /\ range_output = <<>>

\* Module::parse is not running: analyze() is handed a Module
NoLoader ==
    /\ version = 0
    /\ payloads = <<>>
    /\ lpc = "idle"
    /\ yielded = <<>>

NoAudit ==
    /\ exports_seen = {}
    /\ undecoded = {}
    /\ call_log = <<>>
    /\ previous_out = <<>>

\* analyze(module, include_sections, include_functions, include_operators, ..)
\* before the first payload of the module
Init ==
    /\ include_sections \in BOOLEAN
    /\ include_functions \in BOOLEAN
    /\ include_operators \in BOOLEAN
    /\ FreshAnalysis
    /\ pc = "payloads"
    /\ NoDisplay
    /\ NoRange
    /\ NoLoader
    /\ NoAudit

\* the next payload is a section: the header has been read, no code section
\* is open, and the module has room for `cost` more items
AtSection(cost) ==
    /\ pc = "payloads"
    /\ file_size > 0
    /\ code_left = 0
    /\ input_used + cost <= MaxInput

\* expect("Could not encode in LEB128") fails: the process aborts
Panic ==
    /\ pc' = "panicked"
    /\ UNCHANGED <<analysisVars, function_index, code_left, segments_left, historyVars>>

\* Version { .. } => analysis.sections_size_total += 8
VersionPayload ==
    /\ pc = "payloads"
    /\ file_size = 0
    /\ sections_size_total' = sections_size_total + 8
    /\ file_size' = 8
    /\ UNCHANGED <<include_sections, include_functions, include_operators,
                   implemented_function_count, imported_functions, exported_functions,
                   static_function_calls, dynamic_dispatch_functions, sections,
                   operator_usage, sorted_operator_usage, operator_count,
                   function_index, pc, code_left, segments_left, input_used, historyVars>>
    /\ UNCHANGED <<displayVars, rangeVars, loaderVars, auditVars>>

\* TypeSection(section), CustomSection(section), ... => add_section(..)
PlainSection(framings) ==
    /\ AtSection(1)
    /\ \E section_type \in PlainSections, framing \in framings :
        LET range == SectionRange(framing) IN
        /\ file_size' = range.end
        /\ input_used' = input_used + 1
        /\ IF add_section_panics(section_type, range) THEN Panic
           ELSE /\ add_section(section_type, ItemCount(section_type, 1), range)
                /\ UNCHANGED <<include_sections, include_functions, include_operators,
                               implemented_function_count, imported_functions,
                               exported_functions, static_function_calls,
                               dynamic_dispatch_functions, operator_usage,
                               sorted_operator_usage, operator_count,
                               function_index, pc, code_left, segments_left, historyVars>>
    /\ UNCHANGED <<displayVars, rangeVars, loaderVars, auditVars>>

\* CodeSectionStart { count, range, size } => add_section(..); the parser
\* then yields `count` CodeSectionEntry payloads
CodeSectionStart(framings) ==
    /\ AtSection(1)
    /\ \E count \in 0..(MaxInput - input_used - 1), framing \in framings :
        LET range == SectionRange(framing) IN
        /\ file_size' = range.end
        /\ input_used' = input_used + 1 + count
        /\ IF add_section_panics("CodeSectionStart", range) THEN Panic
           ELSE /\ add_section("CodeSectionStart", [some |-> TRUE, count |-> count], range)
                /\ code_left' = count
                /\ UNCHANGED <<include_sections, include_functions, include_operators,
                               implemented_function_count, imported_functions,
                               exported_functions, static_function_calls,
                               dynamic_dispatch_functions, operator_usage,
                               sorted_operator_usage, operator_count,
                               function_index, pc, segments_left, historyVars>>
    /\ UNCHANGED <<displayVars, rangeVars, loaderVars, auditVars>>

\* CodeSectionEntry(function_body) => add_function(..): its entry, up to
\* the loop over the operators
CodeSectionEntry ==
    /\ pc = "payloads"
    /\ code_left > 0
    /\ IF ~include_functions
       THEN /\ code_left' = code_left - 1
            /\ UNCHANGED <<pc, assigned>>
       ELSE /\ pc' = "body"
            /\ assigned' = Append(assigned, [kind |-> "code", index |-> function_index])
            /\ UNCHANGED code_left
    /\ UNCHANGED <<analysisVars, function_index, file_size, segments_left, input_used,
                   decoded_calls, segment_functions, decoded_operators, first_seen>>
    /\ UNCHANGED <<displayVars, rangeVars, loaderVars, auditVars>>

\* add_function: one turn of `while !reader.eof()`
ReadOperator ==
    /\ pc = "body"
    /\ input_used + 1 <= MaxInput
    /\ \E operator \in Operators :
        /\ input_used' = input_used + 1
        /\ static_function_calls' =
               IF OpName(operator) = "Call"
               THEN add_function_call(static_function_calls, function_index,
                                      operator.function_index)
               ELSE static_function_calls
        /\ decoded_calls' =
               IF OpName(operator) = "Call"
               THEN decoded_calls \cup {<<function_index, operator.function_index>>}
               ELSE decoded_calls
        /\ decoded_operators' = decoded_operators + 1
        /\ IF include_operators
           THEN /\ operator_usage' = tally(operator_usage, OpName(operator))
                /\ operator_count' = operator_count + 1
                /\ first_seen' =
                       IF Contains(first_seen, OpName(operator)) THEN first_seen
                       ELSE Append(first_seen, OpName(operator))
           ELSE UNCHANGED <<operator_usage, operator_count, first_seen>>
        /\ UNCHANGED <<include_sections, include_functions, include_operators,
                       implemented_function_count, imported_functions, exported_functions,
                       dynamic_dispatch_functions, sections, sections_size_total,
                       sorted_operator_usage, function_index, pc, file_size, code_left, segments_left,
                       assigned, segment_functions>>
    /\ UNCHANGED <<displayVars, rangeVars, loaderVars, auditVars>>

\* add_function: reader.eof(), the function is counted and the index moves on
EndOfBody ==
    /\ pc = "body"
    /\ implemented_function_count' = implemented_function_count + 1
    /\ function_index' = function_index + 1
    /\ code_left' = code_left - 1
    /\ pc' = "payloads"
    /\ UNCHANGED <<include_sections, include_functions, include_operators,
                   imported_functions, exported_functions, static_function_calls,
                   dynamic_dispatch_functions, sections, sections_size_total,
                   operator_usage, sorted_operator_usage, operator_count,
                   file_size, segments_left, input_used, historyVars>>
    /\ UNCHANGED <<displayVars, rangeVars, loaderVars, auditVars>>

\* ImportSection(reader) => add_imports(reader, &mut function_index), for a
\* section of entries of `entry_set`
ImportSectionOf(framings, entry_set) ==
    /\ AtSection(1)
    /\ \E entries \in SeqsUpTo(entry_set, Min(MaxEntries, MaxInput - input_used - 1)),
          framing \in framings :
        LET range == SectionRange(framing)
            after == ImportLoop(Flatten(entries), imported_functions, function_index,
                                assigned)
        IN
        /\ file_size' = range.end
        /\ input_used' = input_used + 1 + Len(entries)
        /\ IF add_section_panics("ImportSection", range)
           THEN Panic /\ UNCHANGED undecoded
           ELSE /\ add_section("ImportSection", [some |-> TRUE, count |-> Len(entries)], range)
                /\ IF include_functions
                   THEN /\ imported_functions' = after.imported
                        /\ function_index' = after.index
                        /\ assigned' = after.log
                        /\ undecoded' = IF HasErr(entries) THEN undecoded \cup {"import"}
                                        ELSE undecoded
                   ELSE UNCHANGED <<imported_functions, function_index, assigned,
                                    undecoded>>
                /\ UNCHANGED <<include_sections, include_functions, include_operators,
                               implemented_function_count, exported_functions,
                               static_function_calls, dynamic_dispatch_functions,
                               operator_usage, sorted_operator_usage, operator_count,
                               pc, code_left, segments_left, decoded_calls, segment_functions,
                               decoded_operators, first_seen>>
    /\ UNCHANGED <<displayVars, rangeVars, loaderVars, exports_seen, call_log,
                   previous_out>>

ImportSection(framings) == ImportSectionOf(framings, ImportEntries)

\* the export entries of function kind among `entries`
FuncExports(entries) ==
    {<<entries[i].index, entries[i].name>> : i \in {j \in DOMAIN entries : entries[j].kind = "Func"}}

\* ExportSection(reader) => add_exports(reader), for a section of entries of
\* `entry_set`
ExportSectionOf(framings, entry_set) ==
    /\ AtSection(1)
    /\ \E entries \in SeqsUpTo(entry_set, Min(MaxEntries, MaxInput - input_used - 1)),
          framing \in framings :
        LET range == SectionRange(framing) IN
        /\ file_size' = range.end
        /\ input_used' = input_used + 1 + Len(entries)
        /\ IF add_section_panics("ExportSection", range)
           THEN Panic /\ UNCHANGED <<exports_seen, undecoded>>
           ELSE /\ add_section("ExportSection", [some |-> TRUE, count |-> Len(entries)], range)
                /\ IF include_functions
                   THEN /\ exported_functions' =
                               ExportLoop(Flatten(entries), exported_functions)
                        /\ exports_seen' = exports_seen \cup FuncExports(entries)
                        /\ undecoded' = IF HasErr(entries) THEN undecoded \cup {"export"}
                                        ELSE undecoded
                   ELSE UNCHANGED <<exported_functions, exports_seen, undecoded>>
                /\ UNCHANGED <<include_sections, include_functions, include_operators,
                               implemented_function_count, imported_functions,
                               static_function_calls, dynamic_dispatch_functions,
                               operator_usage, sorted_operator_usage, operator_count,
                               function_index, pc, code_left, segments_left, historyVars>>
    /\ UNCHANGED <<displayVars, rangeVars, loaderVars, call_log, previous_out>>

ExportSection(framings) == ExportSectionOf(framings, ExportEntries)

\* ElementSection(reader) => add_elements(reader): the section is recorded
\* and the loop over its segments begins
ElementSection(framings) ==
    /\ AtSection(1)
    /\ \E count \in 0..MaxSegments, framing \in framings :
        LET range == SectionRange(framing) IN
        /\ file_size' = range.end
        /\ input_used' = input_used + 1
        /\ IF add_section_panics("ElementSection", range) THEN Panic
           ELSE /\ add_section("ElementSection", [some |-> TRUE, count |-> count], range)
                /\ segments_left' = count
                /\ pc' = IF count = 0 THEN "payloads" ELSE "elements"
                /\ UNCHANGED <<include_sections, include_functions, include_operators,
                               implemented_function_count, imported_functions,
                               exported_functions, static_function_calls,
                               dynamic_dispatch_functions,
                               operator_usage, sorted_operator_usage, operator_count,
                               function_index, code_left, historyVars>>
    /\ UNCHANGED <<displayVars, rangeVars, loaderVars, auditVars>>

\* add_elements: one turn of the loop over the segments of `segment_set`;
\* after the last one the handler returns to the loop over the payloads.
\* flatten() drops a segment that fails to decode, and the iterator ends
\* there; e.unwrap() panics on an item that fails to decode.
ElementSegmentOf(segment_set) ==
    /\ pc = "elements"
    /\ \E segment \in segment_set :
        /\ input_used + Len(segment.list) <= MaxInput
        /\ input_used' = input_used + Len(segment.list)
        /\ IF segment.ty = "Err"
           THEN /\ undecoded' = undecoded \cup {"element"}
                /\ segments_left' = 0
                /\ pc' = "payloads"
                /\ UNCHANGED <<dynamic_dispatch_functions, segment_functions>>
           ELSE IF segment.ty = "funcref" /\ segment.items = "FunctionsErr"
           THEN /\ undecoded' = undecoded \cup {"element item"}
                /\ pc' = "panicked"
                /\ UNCHANGED <<dynamic_dispatch_functions, segment_functions,
                               segments_left>>
           ELSE /\ dynamic_dispatch_functions' =
                       ElementLoop(<<segment>>, dynamic_dispatch_functions)
                /\ segment_functions' =
                       IF Qualifies(segment)
                       THEN segment_functions \cup Range(segment.list)
                       ELSE segment_functions
                /\ segments_left' = segments_left - 1
                /\ pc' = IF segments_left = 1 THEN "payloads" ELSE "elements"
                /\ UNCHANGED undecoded
        /\ UNCHANGED <<include_sections, include_functions, include_operators,
                       implemented_function_count, imported_functions,
                       exported_functions, static_function_calls,
                       sections, sections_size_total,
                       operator_usage, sorted_operator_usage, operator_count,
                       function_index, file_size, code_left, assigned, decoded_calls,
                       decoded_operators, first_seen>>
    /\ UNCHANGED <<displayVars, rangeVars, loaderVars, exports_seen, call_log,
                   previous_out>>

ElementSegment == ElementSegmentOf(Segments)

\* a `?` that drops the error and goes on
PropagateNothing(ok, continues) == continues

\* the `?` of add_function and of analyze(): an Err leaves analyze() at once
Propagate(ok, continues) == IF ok THEN continues ELSE "failed"

\* add_function: function_body.get_operators_reader()? fails
ReaderFails ==
    /\ pc = "payloads"
    /\ code_left > 0
    /\ include_functions
    /\ pc' = Propagate(FALSE, "body")
    /\ assigned' = Append(assigned, [kind |-> "code", index |-> function_index])
    /\ undecoded' = undecoded \cup {"body"}
    /\ UNCHANGED <<analysisVars, function_index, file_size, code_left, segments_left,
                   input_used, decoded_calls, segment_functions, decoded_operators,
                   first_seen>>
    /\ UNCHANGED <<displayVars, rangeVars, loaderVars, exports_seen, call_log,
                   previous_out>>

\* add_function: reader.read()? fails
OperatorFails ==
    /\ pc = "body"
    /\ input_used + 1 <= MaxInput
    /\ input_used' = input_used + 1
    /\ pc' = Propagate(FALSE, "body")
    /\ undecoded' = undecoded \cup {"operator"}
    /\ UNCHANGED <<analysisVars, function_index, file_size, code_left, segments_left,
                   historyVars>>
    /\ UNCHANGED <<displayVars, rangeVars, loaderVars, exports_seen, call_log,
                   previous_out>>

\* the payloads are exhausted: analysis.post_process(); Ok(analysis)
Finish ==
    /\ pc = "payloads"
    /\ file_size > 0
    /\ code_left = 0
    /\ sorted_operator_usage' = post_process(operator_usage)
    /\ pc' = "done"
    /\ UNCHANGED <<include_sections, include_functions, include_operators,
                   implemented_function_count, imported_functions, exported_functions,
                   static_function_calls, dynamic_dispatch_functions, sections,
                   sections_size_total, operator_usage, operator_count,
                   function_index, file_size, code_left, segments_left, input_used, historyVars>>
    /\ UNCHANGED <<displayVars, rangeVars, loaderVars, auditVars>>

\* modules with import, export, element and code sections, each section
\* framed minimally
Next ==
    \/ VersionPayload
    \/ CodeSectionStart(MinimalFramings)
    \/ CodeSectionEntry
    \/ ReadOperator
    \/ EndOfBody
    \/ ImportSection(MinimalFramings)
    \/ ExportSection(MinimalFramings)
    \/ ElementSection(MinimalFramings)
    \/ ElementSegment
    \/ Finish

Spec == Init /\ [][Next]_vars

\* modules of sections framed in every way, analysed for their layout only
InitSections == Init /\ ~include_functions /\ ~include_operators

NextSections ==
    \/ VersionPayload
    \/ PlainSection(Framings)
    \/ CodeSectionStart(Framings)
    \/ CodeSectionEntry
    \/ Finish

SpecSections == InitSections /\ [][NextSections]_vars

\* modules with parts that fail to decode
NextDecode ==
    \/ VersionPayload
    \/ CodeSectionStart(MinimalFramings)
    \/ CodeSectionEntry
    \/ ReaderFails
    \/ ReadOperator
    \/ OperatorFails
    \/ EndOfBody
    \/ ImportSectionOf(MinimalFramings, ImportEntriesOrErr)
    \/ ExportSectionOf(MinimalFramings, ExportEntriesOrErr)
    \/ ElementSection(MinimalFramings)
    \/ ElementSegmentOf(SegmentsOrErr)
    \/ Finish

SpecDecode == Init /\ [][NextDecode]_vars

\* modules of imports and function bodies, with bodies that fail to decode
NextBodies ==
    \/ VersionPayload
    \/ ImportSection(MinimalFramings)
    \/ CodeSectionStart(MinimalFramings)
    \/ CodeSectionEntry
    \/ ReaderFails
    \/ ReadOperator
    \/ OperatorFails
    \/ EndOfBody
    \/ Finish

SpecBodies == Init /\ [][NextBodies]_vars

(***************************************************************************)
(* Display for Analysis: the function lists of the report.                 *)
(***************************************************************************)
\* called_functions.extend(called_list) over static_function_calls.values()
RECURSIVE ExtendAll(_, _)
ExtendAll(calls, keys) ==
    IF keys = {} THEN <<>>
    ELSE LET k == CHOOSE x \in keys : TRUE
         IN  calls[k] \o ExtendAll(calls, keys \ {k})

\* called_functions, after sort() and dedup()
CalledFunctions == Dedup(SortAsc(ExtendAll(static_function_calls, DOMAIN static_function_calls)))

\* all_functions after the four retain() calls and the sort(): the list
\* printed as "Uncalled Functions"
UncalledFunctions ==
    LET all_functions == [i \in 1..implemented_function_count |-> i - 1]
        not_called    == SelectSeq(all_functions, LAMBDA e : ~Contains(CalledFunctions, e))
        not_imported  == SelectSeq(not_called, LAMBDA e : e \notin DOMAIN imported_functions)
        not_exported  == SelectSeq(not_imported, LAMBDA e : e \notin DOMAIN exported_functions)
        not_dynamic   == SelectSeq(not_exported,
                                   LAMBDA e : ~Contains(dynamic_dispatch_functions, e))
    IN  SortAsc(not_dynamic)

(***************************************************************************)
(* Properties of the pass.                                                 *)
(***************************************************************************)
\* the indices the pass gave to code-section entries
ImplementedIndices ==
    {assigned[k].index : k \in {j \in DOMAIN assigned : assigned[j].kind = "code"}}

\* C1: the indices reported as "Uncalled Functions" are exactly the
\* implemented functions' indices that are in no callee list, not imported,
\* not exported and not dynamically dispatched.
C1_UncalledAreTheDeadImplemented ==
    (pc = "done" /\ include_functions) =>
        Range(UncalledFunctions) =
            {i \in ImplementedIndices :
                /\ ~Contains(CalledFunctions, i)
                /\ i \notin DOMAIN imported_functions
                /\ i \notin DOMAIN exported_functions
                /\ ~Contains(dynamic_dispatch_functions, i)}

\* C2: after the pass every direct call decoded in the body of function i
\* to function j is an edge of the call graph: static_function_calls[i]
\* contains j.
C2_EveryDirectCallIsAnEdge ==
    (pc = "done" /\ include_functions) =>
        \A c \in decoded_calls :
            /\ c[1] \in DOMAIN static_function_calls
            /\ Contains(static_function_calls[c[1]], c[2])

\* C3: with include_sections on, sections_size_total of a finished pass is
\* the size of the file.
C3_TotalIsFileSize ==
    (pc = "done" /\ include_sections) => sections_size_total = file_size

\* C4: function indices come from one counter that starts at 0 and moves
\* once per function import and once per code entry: the k-th function
\* receives k - 1, so no two functions share an index and an import's index
\* is below that of every code entry after it.
C4_IndicesFromOneCounter ==
    include_functions =>
        /\ \A k \in DOMAIN assigned : assigned[k].index = k - 1
        /\ function_index = Len(assigned) - (IF pc = "body" THEN 1 ELSE 0)
        /\ \A p, q \in DOMAIN assigned :
               p # q => assigned[p].index # assigned[q].index
        /\ \A p, q \in DOMAIN assigned :
               (p < q /\ assigned[p].kind = "import" /\ assigned[q].kind = "code")
                   => assigned[p].index < assigned[q].index
        /\ DOMAIN imported_functions =
               {assigned[k].index : k \in {j \in DOMAIN assigned : assigned[j].kind = "import"}}

\* a finished pass over two function imports and then a code entry
C4_Witness ==
    /\ pc = "done"
    /\ include_functions
    /\ Len(assigned) = 3
    /\ assigned[1].kind = "import"
    /\ assigned[2].kind = "import"
    /\ assigned[3].kind = "code"
    /\ implemented_function_count = 1

\* C5: after the pass dynamic_dispatch_functions holds exactly the indices
\* listed in the function-index lists of all funcref segments, ascending
\* and without duplicates.
C5_DynamicDispatchIsAllSegments ==
    pc = "done" =>
        /\ Range(dynamic_dispatch_functions) = segment_functions
        /\ \A i, j \in DOMAIN dynamic_dispatch_functions :
               i < j => dynamic_dispatch_functions[i] < dynamic_dispatch_functions[j]

\* the sum of the counts of a histogram
RECURSIVE SumCounts(_, _)
SumCounts(usage, keys) ==
    IF keys = {} THEN 0
    ELSE LET k == CHOOSE x \in keys : TRUE
         IN  usage[k] + SumCounts(usage, keys \ {k})

\* C9: with include_functions and include_operators on, the counts of
\* operator_usage sum to operator_count after every operator, and both are
\* the number of operators decoded so far (at the end: in all bodies).
C9_HistogramSumsToCount ==
    (include_functions /\ include_operators) =>
        /\ SumCounts(operator_usage, DOMAIN operator_usage) = operator_count
        /\ operator_count = decoded_operators

\* a finished pass that decoded three operators of two mnemonics
C9_Witness ==
    /\ pc = "done"
    /\ include_functions /\ include_operators
    /\ decoded_operators = 3
    /\ Cardinality(DOMAIN operator_usage) = 2

\* the place of a value in a sequence without repeats
Pos(s, x) == CHOOSE i \in DOMAIN s : s[i] = x

\* sorted_operator_usage lists every entry of the histogram once, with its
\* count, in non-increasing order of count
EveryEntryOnceByCount ==
    /\ Len(sorted_operator_usage) = Cardinality(DOMAIN operator_usage)
    /\ {sorted_operator_usage[i].name : i \in DOMAIN sorted_operator_usage}
           = DOMAIN operator_usage
    /\ \A i \in DOMAIN sorted_operator_usage :
           sorted_operator_usage[i].count = operator_usage[sorted_operator_usage[i].name]
    /\ \A i, j \in DOMAIN sorted_operator_usage :
           i < j => sorted_operator_usage[i].count >= sorted_operator_usage[j].count

MaxValue == 10

SingleEntry(v) == [entry |-> "SingleEntry", start |-> v, end |-> v]

RangeEntry(first, last) == [entry |-> "RangeEntry", start |-> first, end |-> last]

\* a push that writes every run as a range
push_entry_as_range(output, start, end) == Append(output, RangeEntry(start, end))

\* if start == end { push(SingleEntry(end)) } else { push(RangeEntry(start..=end)) }
push_entry(output, start, end) ==
    IF start = end THEN Append(output, SingleEntry(end))
    ELSE Append(output, RangeEntry(start, end))

\* the loop over input[1..] and the push after it
RECURSIVE RangeLoop(_, _, _, _, _)
RangeLoop(input, i, start, end, output) ==
    IF i > Len(input) THEN push_entry(output, start, end)
    ELSE IF input[i] # end + 1
         THEN RangeLoop(input, i + 1, input[i], input[i], push_entry(output, start, end))
         ELSE RangeLoop(input, i + 1, start, input[i], output)

\* RangeVec::from(input), input not empty
RangeVecFrom(input) == RangeLoop(input, 2, input[1], input[1], <<>>)

\* the elements of a set of numbers in ascending order
RECURSIVE Ascending(_)
Ascending(S) ==
    IF S = {} THEN <<>>
    ELSE LET least == CHOOSE x \in S : \A y \in S : x <= y
         IN  <<least>> \o Ascending(S \ {least})

\* the lists Display hands to RangeVec::from: sorted, deduplicated, not empty
SortedLists == {Ascending(S) : S \in (SUBSET (0..MaxValue)) \ {{}}}

InitRange ==
    /\ include_sections = FALSE
    /\ include_functions = FALSE
    /\ include_operators = FALSE
    /\ FreshAnalysis
    /\ pc = "done"
    /\ NoDisplay
    /\ range_input \in SortedLists
    /\ range_output = <<>>
    /\ NoLoader
    /\ NoAudit

ToRanges ==
    /\ range_input # <<>>
    /\ range_output = <<>>
    /\ range_output' = RangeVecFrom(range_input)
    /\ UNCHANGED <<analysisVars, passVars, historyVars, displayVars, range_input,
                   loaderVars, auditVars>>

NextRange == ToRanges

SpecRange == InitRange /\ [][NextRange]_vars

\* the maximal runs of consecutive integers of a set, as <<first, last>>
MaximalRuns(S) ==
    {r \in S \X S :
        /\ r[1] <= r[2]
        /\ \A v \in r[1]..r[2] : v \in S
        /\ (r[1] - 1) \notin S
        /\ (r[2] + 1) \notin S}

\* C8: for a non-empty strictly ascending list RangeVec::from yields, in
\* ascending order, one entry per maximal run of consecutive integers, a
\* SingleEntry for a run of one (a trailing one too) and a RangeEntry
\* first..=last for a longer one; [1,2,4,5,7,9,10] and [1,2,4,5,7,9] give
\* the entries the tests expect.
C8_OneEntryPerMaximalRun ==
    range_output # <<>> =>
        /\ Len(range_output) = Cardinality(MaximalRuns(Range(range_input)))
        /\ \A k \in DOMAIN range_output :
               /\ <<range_output[k].start, range_output[k].end>>
                      \in MaximalRuns(Range(range_input))
               /\ range_output[k].entry =
                      IF range_output[k].start = range_output[k].end
                      THEN "SingleEntry" ELSE "RangeEntry"
        /\ \A k \in 1..(Len(range_output) - 1) :
               range_output[k].end < range_output[k + 1].start
        /\ range_input = <<1, 2, 4, 5, 7, 9, 10>> =>
               range_output = <<RangeEntry(1, 2), RangeEntry(4, 5),
                                SingleEntry(7), RangeEntry(9, 10)>>
        /\ range_input = <<1, 2, 4, 5, 7, 9>> =>
               range_output = <<RangeEntry(1, 2), RangeEntry(4, 5),
                                SingleEntry(7), SingleEntry(9)>>

\* the result for [1,2,4,5,7,9]: two ranges, a single value and a trailing
\* single value
C8_Witness ==
    /\ range_input = <<1, 2, 4, 5, 7, 9>>
    /\ Len(range_output) = 4
    /\ range_output[4] = SingleEntry(9)

(***************************************************************************)
(* Display for Analysis: the call tree (print_call_tree and                *)
(* print_called_list), on the call graphs add_function_call builds.        *)
(***************************************************************************)
\* calls recorded with add_function_call before the report is written
MaxCalls == 5
\* largest function index of a recorded call
MaxCallIndex == 2

\* the nested print_called_list calls the thread's stack has room for: more
\* than a call chain without repeats can need
StackLimit == MaxCallIndex + 2

\* the pass, reduced to the calls it records
InitRender ==
    /\ include_sections = FALSE
    /\ include_functions = TRUE
    /\ include_operators = FALSE
    /\ FreshAnalysis
    /\ pc = "payloads"
    /\ include_function_call_tree \in BOOLEAN
    /\ rpc = "build"
    /\ calls_made = 0
    /\ keys_left = {}
    /\ call_stack = <<>>
    /\ out = <<>>
    /\ NoRange
    /\ NoLoader
    /\ NoAudit

\* add_function: a Call operator of the body of function `function_index`,
\* or of a later body: the bodies are read in ascending order of index
RecordCall ==
    /\ rpc = "build"
    /\ calls_made < MaxCalls
    /\ \E caller_index \in function_index..MaxCallIndex,
          called_index \in 0..MaxCallIndex :
        /\ function_index' = caller_index
        /\ static_function_calls' =
               add_function_call(static_function_calls, caller_index, called_index)
    /\ calls_made' = calls_made + 1
    /\ UNCHANGED <<include_sections, include_functions, include_operators,
                   implemented_function_count, imported_functions, exported_functions,
                   dynamic_dispatch_functions, sections, sections_size_total,
                   operator_usage, sorted_operator_usage, operator_count,
                   pc, file_size, code_left, segments_left, input_used, historyVars,
                   include_function_call_tree, rpc, keys_left, call_stack, out,
                   rangeVars, loaderVars, auditVars>>

\* the pass ends with some functions exported, and fmt() reaches
\* `if self.include_function_call_tree`; the loop looks up the keys of
\* static_function_calls only, so the exports drawn are exports of callers
StartFmt ==
    /\ rpc = "build"
    /\ \E exported \in SUBSET (DOMAIN static_function_calls) :
           exported_functions' = [i \in exported |-> "a"]
    /\ pc' = "done"
    /\ rpc' = "fmt"
    /\ keys_left' = DOMAIN static_function_calls
    /\ UNCHANGED <<include_sections, include_functions, include_operators,
                   implemented_function_count, imported_functions,
                   static_function_calls, dynamic_dispatch_functions, sections,
                   sections_size_total, operator_usage, sorted_operator_usage,
                   operator_count, function_index, file_size, code_left, segments_left,
                   input_used, historyVars, include_function_call_tree, calls_made,
                   call_stack, out, rangeVars, loaderVars, auditVars>>

\* for index in self.static_function_calls.keys(): the next key, in the
\* order the HashMap yields; print_call_tree for an exported one
NextKey ==
    /\ rpc = "fmt"
    /\ include_function_call_tree
    /\ call_stack = <<>>
    /\ \E index \in keys_left :
        /\ keys_left' = keys_left \ {index}
        /\ IF index \in DOMAIN exported_functions
           THEN /\ out' = Append(out, [kind |-> "root", index |-> index, level |-> 0,
                                       call_chain |-> <<>>])
                /\ call_stack' = <<[call_chain |-> <<index>>, next |-> 1]>>
           ELSE UNCHANGED <<out, call_stack>>
    /\ UNCHANGED <<analysisVars, passVars, historyVars, include_function_call_tree,
                   rpc, calls_made, rangeVars, loaderVars, auditVars>>

\* a test that only sees a call of the function by itself
on_call_chain_last_only(call_chain, called) == called = call_chain[Len(call_chain)]

\* call_chain.contains(called)
on_call_chain(call_chain, called) == Contains(call_chain, called)

\* the innermost print_called_list call and the list it walks
TopFrame == call_stack[Len(call_stack)]

CalledList(frame) ==
    LET index == frame.call_chain[Len(frame.call_chain)]
    IN  IF index \in DOMAIN static_function_calls
        THEN static_function_calls[index] ELSE <<>>

\* print_called_list: one turn of `for called in called_list`
PrintCalled ==
    /\ rpc = "fmt"
    /\ call_stack # <<>>
    /\ TopFrame.next <= Len(CalledList(TopFrame))
    /\ LET call_chain == TopFrame.call_chain
           level      == Len(call_chain)
           called     == CalledList(TopFrame)[TopFrame.next]
           moved_on   == [call_stack EXCEPT ![Len(call_stack)].next = @ + 1]
       IN  IF on_call_chain(call_chain, called)
           THEN /\ out' = Append(out, [kind |-> "cyclic", index |-> called,
                                       level |-> level, call_chain |-> call_chain])
                /\ call_stack' = moved_on
                /\ UNCHANGED rpc
           ELSE /\ out' = Append(out, [kind |-> "call", index |-> called,
                                       level |-> level, call_chain |-> call_chain])
                /\ IF Len(call_stack) >= StackLimit
                   THEN /\ rpc' = "overflow"
                        /\ UNCHANGED call_stack
                   ELSE /\ call_stack' = Append(moved_on,
                               [call_chain |-> Append(call_chain, called), next |-> 1])
                        /\ UNCHANGED rpc
    /\ UNCHANGED <<analysisVars, passVars, historyVars, include_function_call_tree,
                   calls_made, keys_left, rangeVars, loaderVars, auditVars>>

\* print_called_list returns: its list is exhausted, or the function has no
\* entry in the call graph; print_call_tree ends the tree with a blank line
ReturnFromCalledList ==
    /\ rpc = "fmt"
    /\ call_stack # <<>>
    /\ TopFrame.next > Len(CalledList(TopFrame))
    /\ call_stack' = SubSeq(call_stack, 1, Len(call_stack) - 1)
    /\ out' = IF Len(call_stack) = 1
              THEN Append(out, [kind |-> "end", index |-> TopFrame.call_chain[1],
                                level |-> 0, call_chain |-> <<>>])
              ELSE out
    /\ UNCHANGED <<analysisVars, passVars, historyVars, include_function_call_tree,
                   rpc, calls_made, keys_left, rangeVars, loaderVars, auditVars>>

\* the call tree is written (or was not asked for)
FmtDone ==
    /\ rpc = "fmt"
    /\ call_stack = <<>>
    /\ ~include_function_call_tree \/ keys_left = {}
    /\ rpc' = "done"
    /\ UNCHANGED <<analysisVars, passVars, historyVars, include_function_call_tree,
                   calls_made, keys_left, call_stack, out, rangeVars, loaderVars, auditVars>>

\* fmt() runs to its end once it is called
Fmt == NextKey \/ PrintCalled \/ ReturnFromCalledList \/ FmtDone

NextRender ==
    \/ RecordCall
    \/ StartFmt
    \/ NextKey
    \/ PrintCalled
    \/ ReturnFromCalledList
    \/ FmtDone

SpecRender == InitRender /\ [][NextRender]_vars /\ WF_vars(Fmt)

\* the function indices of the call graph: callers and callees
GraphIndices ==
    (DOMAIN static_function_calls)
        \cup UNION {Range(static_function_calls[k]) : k \in DOMAIN static_function_calls}

\* C6: writing the call tree terminates for every call graph, cycles and
\* self-calls included, and the depth of the recursion never exceeds the
\* number of distinct function indices of the graph.
C6_CallTreeTerminates ==
    /\ (rpc = "fmt") ~> (rpc = "done")
    /\ [](Len(call_stack) <= Cardinality(GraphIndices))

\* the tree of a graph with a cycle through all its indices is written:
\* a "Cyclic call" line at the depth of the number of indices
C6_Witness ==
    /\ rpc = "done"
    /\ Cardinality(GraphIndices) >= 2
    /\ \E k \in DOMAIN out :
           /\ out[k].kind = "cyclic"
           /\ out[k].level = Cardinality(GraphIndices)

\* C7: a callee is written as a "Cyclic call" and not recursed into exactly
\* when its index is on the current call chain (the root included); any
\* other callee, also one written before under another branch, is written
\* as a call and expanded, so a call chain never repeats an index.
C7_CyclicIffOnCallChain ==
    /\ \A k \in DOMAIN out :
           out[k].kind \in {"call", "cyclic"} =>
               (out[k].kind = "cyclic"
                    <=> \E i \in DOMAIN out[k].call_chain :
                            out[k].call_chain[i] = out[k].index)
    /\ \A f \in DOMAIN call_stack :
           /\ \A i, j \in DOMAIN call_stack[f].call_chain :
                  i # j => call_stack[f].call_chain[i] # call_stack[f].call_chain[j]
           /\ Len(call_stack[f].call_chain) = f

\* a callee written and expanded under one branch is written and expanded
\* again under another branch of the same tree
C7_Witness ==
    /\ rpc = "done"
    /\ \E j, k \in DOMAIN out :
           /\ j < k
           /\ out[j].kind = "call" /\ out[k].kind = "call"
           /\ out[j].index = out[k].index
           /\ out[j].call_chain # out[k].call_chain
           /\ \A m \in j..k : out[m].kind # "root"

(***************************************************************************)
(* Module::parse: the loader.                                              *)
(***************************************************************************)
\* results the parser yields for one module
MaxPayloads == 4

\* version numbers a Version payload carries
VersionNums == {0, 1}

\* what Parser::parse_all yields: Ok(Version), Ok(End), Ok of any other
\* payload, or Err
ParserResults ==
    [result : {"Ok"}, payload : {"Version"}, num : VersionNums]
        \cup [result : {"Ok"}, payload : {"End", "Section"}, num : {0}]
        \cup [result : {"Err"}, payload : {"None"}, num : {0}]

\* a validate that accepts every version
validate_any(v) == TRUE

\* validate: Ok(self) unless self.version == 0
validate(v) == v # 0

\* let mut module = Self { version: 0, payloads: vec![], .. }
InitParse ==
    /\ include_sections = FALSE
    /\ include_functions = FALSE
    /\ include_operators = FALSE
    /\ FreshAnalysis
    /\ pc = "idle"
    /\ NoDisplay
    /\ NoRange
    /\ version = 0
    /\ payloads = <<>>
    /\ lpc = "parsing"
    /\ yielded = <<>>
    /\ NoAudit

\* one turn of `for payload in Parser::new(0).parse_all(buf)`:
\* Ok(End(_)) => continue, Ok(section) => add_payload(section)?, _ => bail!
ParsePayload ==
    /\ lpc = "parsing"
    /\ Len(yielded) < MaxPayloads
    /\ \E r \in ParserResults :
        /\ yielded' = Append(yielded, r)
        /\ IF r.result = "Err"
           THEN /\ lpc' = "err"
                /\ UNCHANGED <<version, payloads>>
           ELSE IF r.payload = "End"
           THEN UNCHANGED <<version, payloads, lpc>>
           ELSE /\ version' = IF r.payload = "Version" THEN r.num ELSE version
                /\ payloads' = Append(payloads, r)
                /\ UNCHANGED lpc
    /\ UNCHANGED <<analysisVars, passVars, historyVars, displayVars, rangeVars,
                   auditVars>>

\* the parser is exhausted: module.validate()
ParseEnd ==
    /\ lpc = "parsing"
    /\ lpc' = IF validate(version) THEN "ok" ELSE "err"
    /\ UNCHANGED <<analysisVars, passVars, historyVars, displayVars, rangeVars,
                   version, payloads, yielded, auditVars>>

NextParse ==
    \/ ParsePayload
    \/ ParseEnd

SpecParse == InitParse /\ [][NextParse]_vars

\* the Version payloads among the results the parser yielded
VersionsYielded == SelectSeq(yielded, LAMBDA r : r.payload = "Version")

\* the results that are handed to add_payload
Kept(results) == SelectSeq(results, LAMBDA r : r.result = "Ok" /\ r.payload # "End")

\* C11: parse returns an error whenever no Version payload was yielded or
\* the last one declares 0, every Module returned has version # 0, and a
\* result that fails to decode makes parse return an error; a returned
\* Module holds every payload that was yielded, End payloads excepted.
C11_ParseRejectsBadVersionAndErrors ==
    /\ lpc = "ok" =>
           /\ VersionsYielded # <<>>
           /\ VersionsYielded[Len(VersionsYielded)].num # 0
           /\ version = VersionsYielded[Len(VersionsYielded)].num
           /\ version # 0
           /\ \A i \in DOMAIN yielded : yielded[i].result # "Err"
           /\ payloads = Kept(yielded)
    /\ (\E i \in DOMAIN yielded : yielded[i].result = "Err") => lpc = "err"

\* a module of two Version payloads (the second one of a nested module), a
\* section and End payloads is loaded
C11_Witness ==
    /\ lpc = "ok"
    /\ Len(VersionsYielded) = 2
    /\ VersionsYielded[1].num = 0
    /\ Len(payloads) = 3
    /\ Len(yielded) = 4

(***************************************************************************)
(* analyze(): its preconditions and its toggles.                           *)
(***************************************************************************)
\* C12: analyze called with include_operators and without include_functions
\* is rejected: it does not return Ok(analysis).
C12_OperatorsRequireFunctions ==
    (include_operators /\ ~include_functions) => pc # "done"

\* C13: with include_functions on, a function body whose operator stream
\* cannot be decoded (the reader cannot be obtained, or an operator cannot
\* be read) makes analyze return an error: the pass has stopped there, the
\* body is not counted as implemented, and no Analysis is returned.
C13_UndecodableBodyIsFatal ==
    (include_functions /\ undecoded \cap {"body", "operator"} # {}) =>
        /\ pc = "failed"
        /\ implemented_function_count < Len(SelectSeq(assigned, LAMBDA a : a.kind = "code"))
        /\ sorted_operator_usage = <<>>

\* an operator of the second body fails to decode after the first body was
\* read to its end
C13_Witness ==
    /\ pc = "failed"
    /\ "operator" \in undecoded
    /\ implemented_function_count = 1
    /\ decoded_operators >= 1
    /\ code_left >= 1

\* C14: an entry of an import, export or element section that cannot be
\* decoded makes analyze abort with an error: it does not return an Analysis
\* built from the entries that did decode.
C14_UndecodableEntryIsFatal ==
    (undecoded \cap {"import", "export", "element", "element item"} # {}) => pc # "done"

\* C15: after an analysis with include_functions on, exported_functions
\* holds index -> name for every export entry of function kind, whatever
\* function the index belongs to, and nothing for exports of other kinds;
\* implemented_function_count is the number of code-section entries.
C15_ExportTableHoldsEveryFunctionExport ==
    (pc = "done" /\ include_functions) =>
        /\ \A e \in exports_seen :
               e[1] \in DOMAIN exported_functions /\ exported_functions[e[1]] = e[2]
        /\ \A i \in DOMAIN exported_functions : <<i, exported_functions[i]>> \in exports_seen
        /\ implemented_function_count =
               Len(SelectSeq(assigned, LAMBDA a : a.kind = "code"))

(***************************************************************************)
(* Display for Analysis: the report of a second analysis.                  *)
(***************************************************************************)
\* the same module is analysed again with the same toggles and the report is
\* written again: the pass builds the same call graph and the same tables,
\* in a new HashMap (a new RandomState), whose keys() order is its own
AnalyzeAgain ==
    /\ rpc = "done"
    /\ include_function_call_tree
    /\ previous_out = <<>>
    /\ out # <<>>
    /\ previous_out' = out
    /\ out' = <<>>
    /\ keys_left' = DOMAIN static_function_calls
    /\ rpc' = "fmt"
    /\ UNCHANGED <<analysisVars, passVars, historyVars, include_function_call_tree,
                   calls_made, call_stack, rangeVars, loaderVars, exports_seen,
                   undecoded, call_log>>

NextRenderTwice ==
    \/ RecordCall
    \/ StartFmt
    \/ NextKey
    \/ PrintCalled
    \/ ReturnFromCalledList
    \/ FmtDone
    \/ AnalyzeAgain

SpecRenderTwice == InitRender /\ [][NextRenderTwice]_vars

\* C16: two analyses of the same module with the same toggles are written
\* as the same text, the order of the exported roots of the call tree
\* included.
C16_ReportIsDeterministic ==
    (rpc = "done" /\ previous_out # <<>>) => out = previous_out

(***************************************************************************)
(* The section records and the byte total.                                 *)
(***************************************************************************)
\* 2 for a size below 128, 3 for a size below 16384, and so on: one tag
\* byte and one byte for every 7 bits of the size
RECURSIVE HeaderSize(_)
HeaderSize(size) == IF size < 128 THEN 2 ELSE 1 + HeaderSize(size \div 128)

RECURSIVE SumOfSections(_)
SumOfSections(records) ==
    IF records = <<>> THEN 0
    ELSE HeaderSize(Head(records).size) + Head(records).size
             + SumOfSections(Tail(records))

\* C17: every section record has header_location = range.start - header_size
\* and size = range.end - range.start, header_size being one tag byte plus
\* the length of the unsigned LEB128 encoding of size; the magic/version
\* header has no record and no header bytes and adds exactly 8 to the total.
C17_SectionRecordsAndTotal ==
    /\ \A i \in DOMAIN sections :
           /\ sections[i].size = sections[i].range.end - sections[i].range.start
           /\ sections[i].header_location =
                  sections[i].range.start - HeaderSize(sections[i].size)
    /\ sections_size_total =
           (IF file_size > 0 THEN 8 ELSE 0) + SumOfSections(sections)

\* a module with a section of 1 byte (header of 2) and a section of 130
\* bytes (header of 3) has been analysed
C17_Witness ==
    /\ pc = "done"
    /\ \E i, j \in DOMAIN sections :
           /\ sections[i].size = 1
           /\ sections[i].range.start - sections[i].header_location = 2
           /\ sections[j].size = 130
           /\ sections[j].range.start - sections[j].header_location = 3

(***************************************************************************)
(* The call graph against the calls handed to add_function_call.           *)
(***************************************************************************)
\* add_function: a Call operator of the body of function `function_index`,
\* or of a later body, with the call kept in call_log
AddFunctionCall ==
    /\ rpc = "build"
    /\ calls_made < MaxCalls
    /\ \E caller_index \in function_index..MaxCallIndex,
          called_index \in 0..MaxCallIndex :
        /\ function_index' = caller_index
        /\ static_function_calls' =
               add_function_call(static_function_calls, caller_index, called_index)
        /\ call_log' = Append(call_log, <<caller_index, called_index>>)
    /\ calls_made' = calls_made + 1
    /\ UNCHANGED <<include_sections, include_functions, include_operators,
                   implemented_function_count, imported_functions, exported_functions,
                   dynamic_dispatch_functions, sections, sections_size_total,
                   operator_usage, sorted_operator_usage, operator_count,
                   pc, file_size, code_left, segments_left, input_used, historyVars,
                   include_function_call_tree, rpc, keys_left, call_stack, out, rangeVars, loaderVars, exports_seen,
                   undecoded, previous_out>>

NextCalls == AddFunctionCall

SpecCalls == InitRender /\ [][NextCalls]_vars

\* no callee is twice in a caller's list, and every callee of a list was
\* called by that caller
ListsAreSetsOfCalls ==
    \A k \in DOMAIN static_function_calls :
        LET called_list == static_function_calls[k] IN
        /\ \A i, j \in DOMAIN called_list : i # j => called_list[i] # called_list[j]
        /\ \A i \in DOMAIN called_list : Contains(call_log, <<k, called_list[i]>>)

\* a call leaves every list as it is or puts its callee, which the list
\* did not hold, at the end of the list of its caller
ListsGrowAtTheEnd ==
    \A k \in DOMAIN static_function_calls :
        /\ k \in DOMAIN static_function_calls'
        /\ \/ static_function_calls'[k] = static_function_calls[k]
           \/ /\ Len(call_log') = Len(call_log) + 1
              /\ LET call == call_log'[Len(call_log')] IN
                 /\ call[1] = k
                 /\ ~Contains(static_function_calls[k], call[2])
                 /\ static_function_calls'[k] =
                        Append(static_function_calls[k], call[2])

C19_TogglesGateTheirSubAnalyses ==
    /\ ~include_sections =>
           /\ sections = <<>>
           /\ sections_size_total = 0
    /\ ~include_functions =>
           /\ imported_functions = EmptyMap
           /\ exported_functions = EmptyMap
           /\ static_function_calls = EmptyMap
           /\ implemented_function_count = 0
           /\ dynamic_dispatch_functions = <<>>
           /\ operator_usage = EmptyMap
           /\ operator_count = 0

(***************************************************************************)
(* Nested modules: the parser yields the payloads of a module inside a     *)
(* ModuleSection after the section itself.                                 *)
(***************************************************************************)
\* the magic and version bytes of a module: a nested module of these bytes
\* only is the smallest one
HeaderBytes == 8

\* ModuleSection { parser, range } => add_section("ModuleSection", None, range),
\* for a nested module that is only its header
ModuleSection ==
    /\ AtSection(1)
    /\ LET range == SectionRange([size |-> HeaderBytes, width |-> LebLen(HeaderBytes)]) IN
        /\ file_size' = range.end
        /\ input_used' = input_used + 1
        /\ add_section("ModuleSection", [some |-> FALSE, count |-> 0], range)
        /\ pc' = "nested"
        /\ UNCHANGED <<include_sections, include_functions, include_operators,
                       implemented_function_count, imported_functions,
                       exported_functions, static_function_calls,
                       dynamic_dispatch_functions, operator_usage,
                       sorted_operator_usage, operator_count,
                       function_index, code_left, segments_left, historyVars>>
    /\ UNCHANGED <<displayVars, rangeVars, loaderVars, auditVars>>

\* the Version payload of the nested module, whose bytes lie inside the
\* range of the ModuleSection: Version { .. } => sections_size_total += 8
NestedVersion ==
    /\ pc = "nested"
    /\ sections_size_total' = sections_size_total + HeaderBytes
    /\ pc' = "payloads"
    /\ UNCHANGED <<include_sections, include_functions, include_operators,
                   implemented_function_count, imported_functions, exported_functions,
                   static_function_calls, dynamic_dispatch_functions, sections,
                   operator_usage, sorted_operator_usage, operator_count,
                   function_index, file_size, code_left, segments_left, input_used,
                   historyVars>>
    /\ UNCHANGED <<displayVars, rangeVars, loaderVars, auditVars>>

NextNested ==
    \/ VersionPayload
    \/ PlainSection(MinimalFramings)
    \/ ModuleSection
    \/ NestedVersion
    \/ Finish

SpecNested == Init /\ [][NextNested]_vars

\* C20: for every module the loader accepts, modules with nested modules
\* included, sections_size_total never exceeds file_size, so that
\* file_size - sections_size_total does not underflow.
C20_TotalWithinFileSize ==
    pc = "done" => sections_size_total <= file_size

(***************************************************************************)
(* track_size on large sections.                                           *)
(***************************************************************************)
\* content sizes on both sides of the largest size whose unsigned LEB128
\* encoding has 4 bytes
BigSizes == {2^28 - 1, 2^28}

BigFramings == {[size |-> s, width |-> LebLen(s)] : s \in BigSizes}

\* modules of large sections
NextBigSections ==
    \/ VersionPayload
    \/ PlainSection(BigFramings)
    \/ Finish

SpecBigSections == Init /\ [][NextBigSections]_vars

\* C21: track_size does not fail or panic for a content size that fits an
\* unsigned 32-bit value: the encoding of the size fits the buffer, and the
\* reconstructed header size is between 2 and 5.
C21_TrackSizeNeverPanics ==
    /\ pc # "panicked"
    /\ \A i \in DOMAIN sections :
           /\ sections[i].range.start - sections[i].header_location >= 2
           /\ sections[i].range.start - sections[i].header_location <= 5

=============================================================================
